---- MODULE Spec2Model ----
(***************************************************************************)
(* Model of capa/render/__init__.py: the conversion of a rule set and its  *)
(* capabilities (match-result trees) into the result document.             *)
(*                                                                         *)
(* Python dicts are functions on strings, built with :> and @@ (f @@ g     *)
(* keeps f's value on a shared key).  Python lists are sequences.  A set   *)
(* of addresses (Result.locations) is a duplicate-free sequence: the       *)
(* elements in the order a `for` loop enumerates them.  A raised exception *)
(* is the value [error |-> <exception type>].                              *)
(***************************************************************************)
EXTENDS Integers, Sequences, FiniteSets, TLC

VARIABLES
    rules,          \* the RuleSet: [rules: name -> Rule, rules_by_namespace: namespace -> Seq(name)]
    capabilities,   \* the capabilities dict, in insertion order: Seq([name, matches: Seq(<<address, Result>>)])
    meta,           \* the global run metadata handed to the render_* routines
    doc,            \* what the last convert_capabilities_to_result_document produced (NoDoc before any call)
    out,            \* what the last render_* routine returned
    stack,          \* call stack of convert_match_to_result_document: Seq([result, next])
    pc              \* "idle" | "running" | "done" | "raised" | "overflow"

vars == <<rules, capabilities, meta, doc, out, stack, pc>>

\* ------------------------------------------------------------------ bounds

\* addresses are 1..MaxAddr
MaxAddr == 2
\* a match feature node carries at most MaxPre children of its own
MaxPre == 1
\* deepest call stack the step-wise model follows (the interpreter's recursion limit)
MaxStack == 7

Addr == 1..MaxAddr

\* ------------------------------------------------------------------ exceptions

Raise(kind) == [error |-> kind]
IsError(x) == "error" \in DOMAIN x

\* index of the first raised exception in a sequence of results, 0 if none
FirstError(seq) ==
    IF \E i \in 1..Len(seq) : IsError(seq[i])
    THEN CHOOSE i \in 1..Len(seq) : IsError(seq[i]) /\ \A j \in 1..(i-1) : ~IsError(seq[j])
    ELSE 0

\* ------------------------------------------------------------------ node conversion

\* Lower without the call of lower()
LowerOmitted(name) == name

\* str.lower() on the statement class names
Lower(name) ==
    CASE name = "And" -> "and"
      [] name = "Or" -> "or"
      [] name = "Not" -> "not"
      [] name = "Some" -> "some"
      [] name = "Range" -> "range"
      [] name = "Subscope" -> "subscope"
      [] OTHER -> name

convert_feature_to_result_document(feature) ==
    LET r0 == ("type" :> feature.name) @@ (feature.name :> feature.value)
        r1 == IF feature.description # "" THEN r0 @@ ("description" :> feature.description) ELSE r0
    IN  IF feature.name = "regex" THEN r1 @@ ("matches" :> feature.matches) ELSE r1

convert_statement_to_result_document(statement) ==
    LET statement_type == Lower(statement.name)
        r0 == ("type" :> statement_type)
        r1 == IF statement.description # "" THEN r0 @@ ("description" :> statement.description) ELSE r0
    IN  IF statement_type = "some" /\ statement.count = 0 THEN ("type" :> "optional") @@ r1
        ELSE IF statement_type = "some" THEN r1 @@ ("count" :> statement.count)
        ELSE IF statement_type = "range"
             THEN r1 @@ ("min" :> statement.min) @@ ("max" :> statement.max)
                     @@ ("child" :> convert_feature_to_result_document(statement.child))
        ELSE IF statement_type = "subscope" THEN r1 @@ ("subscope" :> statement.scope)
        ELSE r1

convert_node_to_result_document(node) ==
    IF node.variant = "statement"
    THEN ("type" :> "statement") @@ ("statement" :> convert_statement_to_result_document(node))
    ELSE IF node.variant = "feature"
    THEN ("type" :> "feature") @@ ("feature" :> convert_feature_to_result_document(node))
    ELSE Raise("RuntimeError")

\* ------------------------------------------------------------------ lookups

\* `name in capabilities`
InCapabilities(caps, name) == \E i \in 1..Len(caps) : caps[i].name = name

\* capabilities[name]; the caller has checked, or takes the KeyError
CapabilitiesOf(caps, name) == caps[CHOOSE i \in 1..Len(caps) : caps[i].name = name].matches

\* {address: result for (address, result) in matches}: a later pair replaces an earlier one
RuleMatches(matches) ==
    [a \in {matches[i][1] : i \in 1..Len(matches)} |->
        matches[CHOOSE i \in 1..Len(matches) :
                    /\ matches[i][1] = a
                    /\ \A j \in (i+1)..Len(matches) : matches[j][1] # a][2]]

\* dict.get(key, default)
MetaGet(m, key, default) == IF key \in DOMAIN m THEN m[key] ELSE default

\* IsSubscopeRule reading the marker under another key: no rule is then taken for a subscope rule
IsSubscopeRuleOtherKey(rule) == MetaGet(rule.meta, "subscope-rule", FALSE)

\* rule.meta.get("capa/subscope-rule"), as a truth value
IsSubscopeRule(rule) == MetaGet(rule.meta, "capa/subscope-rule", FALSE)

\* ------------------------------------------------------------------ match-tree conversion

\* A value the code binds to a name and reads more than once is an operator's parameter here.

RECURSIVE convert_match_to_result_document(_, _, _)

\* isinstance(result.statement, capa.features.Feature) / capa.rules.Range
IsFeature(node) == node.variant = "feature"
IsRange(node) == node.variant = "statement" /\ node.name = "Range"

\* AttachLocations without the test of result.success
AttachLocationsAnyOutcome(d, result) ==
    IF result.statement.variant = "feature" \/ result.statement.name = "Range"
    THEN d @@ ("locations" :> result.locations)
    ELSE d

\* `locations` is set on successful feature nodes and successful range nodes only
AttachLocations(d, result) ==
    IF IsFeature(result.statement)
    THEN IF result.success THEN d @@ ("locations" :> result.locations) ELSE d
    ELSE IF IsRange(result.statement)
    THEN IF result.success THEN d @@ ("locations" :> result.locations) ELSE d
    ELSE d

\* the guard of the splice: a successful `match` feature node
IsMatchReference(d) ==
    /\ d.node.type = "feature"
    /\ d.node.feature.type = "match"
    /\ d.success

\* FixupSubscopeNode leaving the match feature node in place
FixupSubscopeNodeOmitted(d, rule) == d

\* for a subscope rule, the node becomes a scope node rather than a match feature node
FixupSubscopeNode(d, rule) ==
    IF IsSubscopeRule(rule)
    THEN [d EXCEPT !.node =
            ("type" :> "statement")
            @@ ("statement" :> (("type" :> "subscope") @@ ("subscope" :> rule.meta["scope"])))]
    ELSE d

\* AppendChildren putting the spliced results before the node's own children
PrependChildren(d, spliced) == [d EXCEPT !.children = spliced \o @]

\* doc["children"].append(...) for each spliced result, in the order they were produced
AppendChildren(d, spliced) == [d EXCEPT !.children = @ \o spliced]

\* the loop of appends: the first exception ends it
SplicedInto(d, spliced) ==
    IF FirstError(spliced) # 0 THEN spliced[FirstError(spliced)]
    ELSE AppendChildren(d, spliced)

\* for location in doc["locations"]: convert_match_to_result_document(..., rule_matches[location])
ConvertAtLocations(rs, caps, rule_matches, locations) ==
    [k \in 1..Len(locations) |->
        IF locations[k] \in DOMAIN rule_matches
        THEN convert_match_to_result_document(rs, caps, rule_matches[locations[k]])
        ELSE Raise("KeyError")]

SpliceAtLocations(rs, caps, matches, locations) ==
    ConvertAtLocations(rs, caps, RuleMatches(matches), locations)

\* for rule in ns_rules: if rule.name in capabilities: splice its results at every location
RECURSIVE SpliceNamespace(_, _, _, _)
SpliceNamespace(rs, caps, ns_rules, locations) ==
    IF ns_rules = <<>> THEN <<>>
    ELSE (IF InCapabilities(caps, Head(ns_rules))
          THEN SpliceAtLocations(rs, caps, CapabilitiesOf(caps, Head(ns_rules)), locations)
          ELSE <<>>)
         \o SpliceNamespace(rs, caps, Tail(ns_rules), locations)

\* the splice itself: the results of the rule, or of the namespace, called `name` are
\* pulled into this node
SpliceReference(rs, caps, d, name) ==
    IF name \in DOMAIN rs.rules
    THEN IF ~InCapabilities(caps, name) THEN Raise("KeyError")
         ELSE SplicedInto(FixupSubscopeNode(d, rs.rules[name]),
                          SpliceAtLocations(rs, caps, CapabilitiesOf(caps, name), d.locations))
    ELSE IF name \notin DOMAIN rs.rules_by_namespace THEN Raise("KeyError")
         ELSE SplicedInto(d, SpliceNamespace(rs, caps, rs.rules_by_namespace[name], d.locations))

SpliceIfReference(rs, caps, d) ==
    IF IsMatchReference(d) THEN SpliceReference(rs, caps, d, d.node.feature.match) ELSE d

\* the conversion once the node and the children are converted
ConvertedNode(rs, caps, result, node, children) ==
    IF IsError(node) THEN node
    ELSE IF FirstError(children) # 0 THEN children[FirstError(children)]
    ELSE SpliceIfReference(rs, caps,
            AttachLocations([success |-> result.success, node |-> node, children |-> children], result))

convert_match_to_result_document(rs, caps, result) ==
    ConvertedNode(rs, caps, result,
        convert_node_to_result_document(result.statement),
        [i \in 1..Len(result.children) |->
            convert_match_to_result_document(rs, caps, result.children[i])])

\* ------------------------------------------------------------------ rule metadata

\* A taxonomy string is [str |-> tokens], e.g. <<"Persistence", "::", "Registry", " ", "[", "T1547", "]">>;
\* a parsed one is the record parse_canonical_attack / parse_canonical_mbc built.
IsStr(x) == "str" \in DOMAIN x

\* the position of the last space of the string, past its end if it has none
LastSpace(toks) ==
    IF \E i \in 1..Len(toks) : toks[i] = " "
    THEN CHOOSE i \in 1..Len(toks) : toks[i] = " " /\ \A j \in (i+1)..Len(toks) : toks[j] # " "
    ELSE Len(toks) + 1

PartsAndId(toks, sp) ==
    [parts |-> SelectSeq(SubSeq(toks, 1, sp - 1), LAMBDA t : t # "::"),
     id |-> IF sp + 2 <= Len(toks) THEN toks[sp + 2] ELSE ""]

\* capa.render.utils.parse_parts_id: the `::`-separated parts and the bracketed identifier
parse_parts_id(s) == PartsAndId(s.str, LastSpace(s.str))

PartAt(parts, i) == IF Len(parts) >= i THEN parts[i] ELSE ""

AttackOf(p) ==
    [parts |-> p.parts, id |-> p.id,
     tactic |-> PartAt(p.parts, 1), technique |-> PartAt(p.parts, 2), subtechnique |-> PartAt(p.parts, 3)]

parse_canonical_attack(attack) ==
    IF ~IsStr(attack) THEN Raise("AttributeError") ELSE AttackOf(parse_parts_id(attack))

MbcOf(p) ==
    [parts |-> p.parts, id |-> p.id,
     objective |-> PartAt(p.parts, 1), behavior |-> PartAt(p.parts, 2), method |-> PartAt(p.parts, 3)]

parse_canonical_mbc(mbc) ==
    IF ~IsStr(mbc) THEN Raise("AttributeError") ELSE MbcOf(parse_parts_id(mbc))

\* meta[key] = value
MetaSet(m, key, value) == (key :> value) @@ m

\* meta[key] = [<parsed> for ... in ...]: the dict as the statement leaves it and, when
\* a parse raised, the exception
MetaSetParsed(m, key, parsed) ==
    IF FirstError(parsed) # 0 THEN [meta |-> m, result |-> parsed[FirstError(parsed)]]
    ELSE [meta |-> MetaSet(m, key, parsed), result |-> MetaSet(m, key, parsed)]

ParsedAttacks(attacks) == [i \in 1..Len(attacks) |-> parse_canonical_attack(attacks[i])]
ParsedMbcs(mbcs) == [i \in 1..Len(mbcs) |-> parse_canonical_mbc(mbcs[i])]

MbcsConverted(a) ==
    IF IsError(a.result) THEN a
    ELSE MetaSetParsed(a.meta, "mbc", ParsedMbcs(MetaGet(a.meta, "mbc", <<>>)))

\* convert_meta_to_result_document works on the dict it is given: [meta |-> the dict
\* as the call leaves it, result |-> what the call returns or raises]
convert_meta_to_result_document(m) ==
    MbcsConverted(MetaSetParsed(m, "att&ck", ParsedAttacks(MetaGet(m, "att&ck", <<>>))))

\* ------------------------------------------------------------------ document assembly

EmptyDict == [k \in {} |-> k]

\* the dict of the converted matches by address, a later pair replacing an earlier
\* one: [dict |-> the mapping], or the exception
MatchesDict(matches, converted) ==
    IF FirstError(converted) # 0 THEN converted[FirstError(converted)]
    ELSE [dict |-> [a \in {matches[i][1] : i \in 1..Len(matches)} |->
            converted[CHOOSE i \in 1..Len(matches) :
                        /\ matches[i][1] = a
                        /\ \A j \in (i+1)..Len(matches) : matches[j][1] # a]]]

\* {addr: convert_match_to_result_document(rules, capabilities, match) for (addr, match) in matches}
ConvertMatches(rs, caps, matches) ==
    MatchesDict(matches,
        [i \in 1..Len(matches) |-> convert_match_to_result_document(rs, caps, matches[i][2])])

\* the loop of convert_capabilities_to_result_document from item i on:
\* [rules |-> the RuleSet as the loop leaves it, doc |-> doc["rules"] or the exception]
RECURSIVE ConvertRulesFrom(_, _, _, _)

\* doc["rules"][rule_name] = {...}, and on to the next item
AddRule(i, rs, caps, doc_rules, rule, rule_meta, ms) ==
    IF IsError(ms) THEN [rules |-> rs, doc |-> ms]
    ELSE ConvertRulesFrom(i + 1, rs, caps,
            (rule.name :> [meta |-> rule_meta, source |-> rule.definition, matches |-> ms.dict])
            @@ doc_rules)

\* the rule's meta is converted where it is, in the RuleSet, before its matches are
ConvertRule(i, rs, caps, doc_rules, rule, cm) ==
    IF IsError(cm.result) THEN [rules |-> rs, doc |-> cm.result]
    ELSE AddRule(i, rs, caps, doc_rules, rule, cm.result, ConvertMatches(rs, caps, caps[i].matches))

ConvertItem(i, rs, caps, doc_rules, rule_name, cm) ==
    ConvertRule(i, [rs EXCEPT !.rules[rule_name].meta = cm.meta], caps, doc_rules, rs.rules[rule_name], cm)

ConvertRulesFrom(i, rs, caps, doc_rules) ==
    IF i > Len(caps) THEN [rules |-> rs, doc |-> doc_rules]
    ELSE IF caps[i].name \notin DOMAIN rs.rules THEN [rules |-> rs, doc |-> Raise("KeyError")]
    ELSE IF IsSubscopeRule(rs.rules[caps[i].name]) THEN ConvertRulesFrom(i + 1, rs, caps, doc_rules)
    ELSE ConvertItem(i, rs, caps, doc_rules, caps[i].name,
            convert_meta_to_result_document(rs.rules[caps[i].name].meta))

Document(m, r) ==
    IF IsError(r.doc) THEN r ELSE [rules |-> r.rules, doc |-> [meta |-> m, rules |-> r.doc]]

\* [rules |-> the RuleSet after the call, doc |-> the document or the exception]
convert_capabilities_to_result_document(m, rs, caps) ==
    Document(m, ConvertRulesFrom(1, rs, caps, EmptyDict))

\* ------------------------------------------------------------------ rendering

\* CapaJsonObjectEncoder.default: a set is emitted as a sorted list
EncodeSet(locations) == SortSeq(locations, LAMBDA a, b : a < b)

RECURSIVE EncodeMatch(_)
EncodeLocations(d) ==
    IF "locations" \in DOMAIN d THEN [d EXCEPT !.locations = EncodeSet(@)] ELSE d
EncodeMatch(d) ==
    EncodeLocations([d EXCEPT !.children = [i \in 1..Len(@) |-> EncodeMatch(@[i])]])

\* json.dumps(doc, cls=CapaJsonObjectEncoder, sort_keys=True), as the value the text denotes
JsonDumps(d) ==
    [d EXCEPT !.rules = [n \in DOMAIN @ |->
        [@[n] EXCEPT !.matches = [a \in DOMAIN @ |-> EncodeMatch(@[a])]]]]

NoDoc == [absent |-> TRUE]

\* what the renderer makes of the document
Rendering(format, d) ==
    IF IsError(d) THEN d
    ELSE IF format = "json" THEN [format |-> format, text |-> JsonDumps(d)]
    ELSE [format |-> format, text |-> d]

\* render_<format>(meta, rules, capabilities): convert, then hand the document to the renderer
Render(format, r) ==
    /\ rules' = r.rules
    /\ doc' = r.doc
    /\ out' = Rendering(format, r.doc)
    /\ UNCHANGED <<capabilities, meta, stack, pc>>

render_vverbose ==
    /\ pc = "idle"
    /\ Render("vverbose", convert_capabilities_to_result_document(meta, rules, capabilities))

render_verbose ==
    /\ pc = "idle"
    /\ Render("verbose", convert_capabilities_to_result_document(meta, rules, capabilities))

render_default ==
    /\ pc = "idle"
    /\ Render("default", convert_capabilities_to_result_document(meta, rules, capabilities))

render_json ==
    /\ pc = "idle"
    /\ Render("json", convert_capabilities_to_result_document(meta, rules, capabilities))

\* ------------------------------------------------------------------ inputs

Feature(name, value) == [variant |-> "feature", name |-> name, value |-> value, description |-> ""]
Statement(name) == [variant |-> "statement", name |-> name, description |-> ""]
Some(count) == Statement("Some") @@ [count |-> count]
Range(child) == Statement("Range") @@ [min |-> 1, max |-> 2, child |-> child]
Subscope(scope) == Statement("Subscope") @@ [scope |-> scope]
Result(success, statement, children, locations) ==
    [success |-> success, statement |-> statement, children |-> children, locations |-> locations]

\* address sets in every enumeration order, and in ascending order
LocSeqs == {s \in UNION {[1..n -> Addr] : n \in 0..MaxAddr} :
                \A i, j \in 1..Len(s) : i # j => s[i] # s[j]}
AscSeqs == {s \in LocSeqs : \A i, j \in 1..Len(s) : i < j => s[i] < s[j]}
AllAddr == CHOOSE s \in AscSeqs : Len(s) = MaxAddr

ApiLeaf(a) == Result(TRUE, Feature("api", "CreateFileA"), <<>>, <<a>>)
MatchNode(name, success, locations, pre) ==
    Result(success, Feature("match", name),
           [i \in 1..pre |-> Result(TRUE, Feature("number", ToString(i)), <<>>, <<1>>)],
           IF success THEN locations ELSE <<>>)

\* the match tree of rule C at address a; with ref = "A" it refers back to rule A
TreeC(a, ref) ==
    Result(TRUE, Statement("Or"),
           IF ref = "none" THEN <<ApiLeaf(a)>> ELSE <<ApiLeaf(a), MatchNode(ref, TRUE, <<1>>, 0)>>,
           <<>>)
\* the match tree of rule B at address a; with ref = "C" it refers to rule C at a
TreeB(a, ref) ==
    Result(TRUE, Statement("And"),
           IF ref = "none" THEN <<ApiLeaf(a)>> ELSE <<ApiLeaf(a), MatchNode(ref, TRUE, <<a>>, 0)>>,
           <<>>)
\* the match tree of rule A
TreeA(cfg) ==
    Result(cfg.rootSucc, cfg.root,
           <<cfg.sibling, MatchNode(cfg.aRef, cfg.aSucc, cfg.aLocs, cfg.aPre)>>, <<>>)

RuleMeta(name, cfg) ==
    ("scope" :> (IF name = "B" THEN "basic block" ELSE "function"))
    @@ (IF name = "B" /\ cfg.bSub THEN ("capa/subscope-rule" :> TRUE)
        ELSE ("namespace" :> (IF name = "A" THEN "host" ELSE "net")))
    @@ (IF name = "A" /\ cfg.attack.given THEN ("att&ck" :> cfg.attack.list) ELSE EmptyDict)
    @@ (IF name = "A" /\ cfg.mbc.given THEN ("mbc" :> cfg.mbc.list) ELSE EmptyDict)

RuleSetOf(cfg) ==
    [rules |-> [n \in {"A", "B", "C"} |->
                    [name |-> n, meta |-> RuleMeta(n, cfg), definition |-> "rule: " \o n]],
     rules_by_namespace |->
        ("host" :> <<"A">>) @@ ("net" :> (IF cfg.bSub THEN <<"C">> ELSE <<"B", "C">>))]

\* rules match dependencies first; a rule with no match has no entry
CapabilitiesOfCfg(cfg) ==
    (IF cfg.capC = <<>> THEN <<>>
     ELSE <<[name |-> "C", matches |-> [i \in 1..Len(cfg.capC) |-> <<cfg.capC[i], TreeC(cfg.capC[i], cfg.cRef)>>]]>>)
    \o (IF cfg.capB = <<>> THEN <<>>
        ELSE <<[name |-> "B", matches |-> [i \in 1..Len(cfg.capB) |-> <<cfg.capB[i], TreeB(cfg.capB[i], cfg.bRef)>>]]>>)
    \o <<[name |-> "A", matches |-> <<<<1, TreeA(cfg)>>>>]>>

Str(tokens) == [str |-> tokens]
NotGiven == [given |-> FALSE, list |-> <<>>]
Given(list) == [given |-> TRUE, list |-> list]
Attacks == {NotGiven, Given(<<>>),
            Given(<<Str(<<"Persistence", "::", "Registry", " ", "[", "T1547", "]">>)>>),
            Given(<<Str(<<"Discovery">>),
                    Str(<<"Execution", "::", "API", "::", "Native", " ", "[", "T1106", "]">>)>>)}
Mbcs == {NotGiven, Given(<<Str(<<"Anti-Analysis", "::", "Debugger", " ", "[", "B0001", "]">>)>>)}

Default ==
    [aRef |-> "B", aSucc |-> TRUE, aLocs |-> <<1>>, aPre |-> 0, bSub |-> FALSE,
     bRef |-> "none", cRef |-> "none", capB |-> AllAddr, capC |-> AllAddr,
     root |-> Statement("And"), rootSucc |-> TRUE, sibling |-> ApiLeaf(1),
     attack |-> NotGiven, mbc |-> NotGiven]

Refs == {"B", "C", "net", "zz"}
Outcomes == {<<FALSE, <<>>>>} \cup {<<TRUE, l>> : l \in LocSeqs \ {<<>>}}

\* which results are captured, and where the reference points
SpliceCfgs ==
    {[Default EXCEPT !.aRef = r, !.aSucc = o[1], !.aLocs = o[2], !.bSub = s, !.capB = b, !.capC = c] :
        r \in Refs, o \in Outcomes, s \in BOOLEAN, b \in AscSeqs, c \in AscSeqs}
\* children of the referring node, and references inside the referenced rule
NestCfgs ==
    {[Default EXCEPT !.aRef = r, !.aLocs = l, !.aPre = p, !.bRef = b, !.bSub = s] :
        r \in Refs \ {"zz"}, l \in LocSeqs \ {<<>>}, p \in 0..MaxPre, b \in {"none", "C"}, s \in BOOLEAN}
\* every kind of statement and feature node
Roots == {Statement("And"), Statement("Or"), Statement("Not"), Some(0), Some(2), Subscope("basic block"),
          [Statement("And") EXCEPT !.description = "all of them"]}
Siblings == {ApiLeaf(1),
             Result(FALSE, Feature("api", "CreateFileA"), <<>>, <<>>),
             Result(TRUE, [Feature("string", "cmd.exe") EXCEPT !.description = "shell"], <<>>, <<1>>),
             Result(TRUE, Feature("regex", "/cmd/") @@ [matches |-> <<"cmd.exe">>], <<>>, <<1>>),
             Result(TRUE, Range(Feature("api", "CreateFileA")), <<>>, AllAddr),
             Result(FALSE, Range(Feature("api", "CreateFileA")), <<>>, <<>>),
             Result(TRUE, Some(0), <<Result(FALSE, Feature("api", "CreateFileA"), <<>>, <<>>)>>, <<>>)}
ShapeCfgs ==
    {[Default EXCEPT !.root = r, !.rootSucc = rs, !.sibling = sb, !.aSucc = ms, !.bSub = s] :
        r \in Roots, rs \in BOOLEAN, sb \in Siblings, ms \in BOOLEAN, s \in BOOLEAN}
\* the taxonomy references of rule A
MetaCfgs ==
    {[Default EXCEPT !.attack = a, !.mbc = m, !.bSub = s] : a \in Attacks, m \in Mbcs, s \in BOOLEAN}

Configs == SpliceCfgs \cup NestCfgs \cup ShapeCfgs \cup MetaCfgs

Init ==
    \E cfg \in Configs :
        /\ rules = RuleSetOf(cfg)
        /\ capabilities = CapabilitiesOfCfg(cfg)
        /\ meta = [sample |-> "a.exe"]
        /\ doc = NoDoc
        /\ out = NoDoc
        /\ stack = <<>>
        /\ pc = "idle"

Next ==
    \/ render_vverbose
    \/ render_verbose
    \/ render_default
    \/ render_json

Spec == Init /\ [][Next]_vars

\* ------------------------------------------------------------------ the recursion, call by call

\* What one invocation of convert_match_to_result_document does next: call itself on a
\* result (of the rule `rule`; `root` when the result is a whole match tree), or raise.
CallStep(rule, root, result) == [kind |-> "call", rule |-> rule, root |-> root, result |-> result]
RaiseStep(kind) == [kind |-> "raise", error |-> kind]

\* for location in doc["locations"]: the call on rule_matches[location], or its KeyError
LocationSteps(rule_name, matches, locations) ==
    LET rule_matches == RuleMatches(matches)
    IN  [k \in 1..Len(locations) |->
            IF locations[k] \in DOMAIN rule_matches
            THEN CallStep(rule_name, TRUE, rule_matches[locations[k]])
            ELSE RaiseStep("KeyError")]

RECURSIVE NamespaceSteps(_, _, _)
NamespaceSteps(caps, ns_rules, locations) ==
    IF ns_rules = <<>> THEN <<>>
    ELSE (IF InCapabilities(caps, Head(ns_rules))
          THEN LocationSteps(Head(ns_rules), CapabilitiesOf(caps, Head(ns_rules)), locations)
          ELSE <<>>)
         \o NamespaceSteps(caps, Tail(ns_rules), locations)

\* the steps of the splice at a successful `match` feature node
ReferenceSteps(rs, caps, d) ==
    LET name == d.node.feature.match
    IN  IF name \in DOMAIN rs.rules
        THEN IF ~InCapabilities(caps, name) THEN <<RaiseStep("KeyError")>>
             ELSE LocationSteps(name, CapabilitiesOf(caps, name), d.locations)
        ELSE IF name \notin DOMAIN rs.rules_by_namespace THEN <<RaiseStep("KeyError")>>
             ELSE NamespaceSteps(caps, rs.rules_by_namespace[name], d.locations)

\* Steps passing the result in hand, not rule_matches[location], to the spliced call
StepsOnOwnResult(rs, caps, rule, result) ==
    LET node == convert_node_to_result_document(result.statement)
        d == AttachLocations([success |-> result.success, node |-> node, children |-> <<>>], result)
    IN  IF IsError(node) THEN <<RaiseStep("RuntimeError")>>
        ELSE [i \in 1..Len(result.children) |-> CallStep(rule, FALSE, result.children[i])]
             \o (IF IsMatchReference(d)
                 THEN [k \in 1..Len(d.locations) |-> CallStep(rule, TRUE, result)]
                 ELSE <<>>)

\* every step of one invocation, in order: the node, the children, the splice
Steps(rs, caps, rule, result) ==
    LET node == convert_node_to_result_document(result.statement)
        d == AttachLocations([success |-> result.success, node |-> node, children |-> <<>>], result)
    IN  IF IsError(node) THEN <<RaiseStep("RuntimeError")>>
        ELSE [i \in 1..Len(result.children) |-> CallStep(rule, FALSE, result.children[i])]
             \o (IF IsMatchReference(d) THEN ReferenceSteps(rs, caps, d) ELSE <<>>)

Frame(step) == [rule |-> step.rule, root |-> step.root, result |-> step.result, next |-> 1]
Top == stack[Len(stack)]
TopSteps == Steps(rules, capabilities, Top.rule, Top.result)

\* convert_capabilities_to_result_document calls the conversion on a match of a rule
\* that is not a subscope rule
Start ==
    /\ pc = "idle"
    /\ \E i \in 1..Len(capabilities) :
        /\ capabilities[i].name \in DOMAIN rules.rules
        /\ ~IsSubscopeRule(rules.rules[capabilities[i].name])
        /\ \E j \in 1..Len(capabilities[i].matches) :
            stack' = <<Frame(CallStep(capabilities[i].name, TRUE, capabilities[i].matches[j][2]))>>
    /\ pc' = "running"
    /\ UNCHANGED <<rules, capabilities, meta, doc, out>>

\* the running invocation calls itself on a child or on a referenced result
Call ==
    /\ pc = "running"
    /\ Top.next <= Len(TopSteps)
    /\ TopSteps[Top.next].kind = "call"
    /\ Len(stack) < MaxStack
    /\ stack' = Append([stack EXCEPT ![Len(stack)].next = @ + 1], Frame(TopSteps[Top.next]))
    /\ UNCHANGED <<rules, capabilities, meta, doc, out, pc>>

\* the call that would exceed the interpreter's recursion limit raises RecursionError
Overflow ==
    /\ pc = "running"
    /\ Top.next <= Len(TopSteps)
    /\ TopSteps[Top.next].kind = "call"
    /\ Len(stack) >= MaxStack
    /\ pc' = "overflow"
    /\ UNCHANGED <<rules, capabilities, meta, doc, out, stack>>

\* a failed lookup raises; no invocation catches it
RaiseError ==
    /\ pc = "running"
    /\ Top.next <= Len(TopSteps)
    /\ TopSteps[Top.next].kind = "raise"
    /\ pc' = "raised"
    /\ UNCHANGED <<rules, capabilities, meta, doc, out, stack>>

\* the running invocation has made all its calls and returns its document
Return ==
    /\ pc = "running"
    /\ Top.next > Len(TopSteps)
    /\ stack' = SubSeq(stack, 1, Len(stack) - 1)
    /\ pc' = IF Len(stack) = 1 THEN "done" ELSE "running"
    /\ UNCHANGED <<rules, capabilities, meta, doc, out>>

\* results captured at no address, at the first, or at all; references from B to C and from C back to A
StepCfgs ==
    {[Default EXCEPT !.aRef = r, !.aLocs = l, !.bRef = b, !.cRef = c, !.capB = cb, !.capC = cc, !.bSub = s] :
        r \in Refs, l \in AscSeqs \ {<<>>}, b \in {"none", "C"}, c \in {"none", "A"},
        cb \in {<<>>, <<1>>, AllAddr}, cc \in {<<>>, <<1>>, AllAddr}, s \in BOOLEAN}

InitStep ==
    \E cfg \in StepCfgs :
        /\ rules = RuleSetOf(cfg)
        /\ capabilities = CapabilitiesOfCfg(cfg)
        /\ meta = [sample |-> "a.exe"]
        /\ doc = NoDoc
        /\ out = NoDoc
        /\ stack = <<>>
        /\ pc = "idle"

NextStep ==
    \/ Start
    \/ Call
    \/ Overflow
    \/ RaiseError
    \/ Return

\* the interpreter runs the conversion to its end
SpecStep == InitStep /\ [][NextStep]_vars /\ WF_vars(NextStep)

\* ------------------------------------------------------------------ reading a state

Rendered == "absent" \notin DOMAIN doc
HasDoc == "rules" \in DOMAIN doc
Raised == "error" \in DOMAIN doc

Min(a, b) == IF a < b THEN a ELSE b

RECURSIVE Flatten(_)
Flatten(seqs) == IF seqs = <<>> THEN <<>> ELSE Head(seqs) \o Flatten(Tail(seqs))

\* a successful `match` feature node of an input tree, and the name it refers to
IsSuccMatch(r) == r.statement.variant = "feature" /\ r.statement.name = "match" /\ r.success
RefName(r) == r.statement.value
KnownRule(n) == n \in DOMAIN rules.rules
KnownNamespace(n) == n \in DOMAIN rules.rules_by_namespace
MarkedSubscope(n) ==
    /\ "capa/subscope-rule" \in DOMAIN rules.rules[n].meta
    /\ rules.rules[n].meta["capa/subscope-rule"] = TRUE

\* the rule names with an entry in capabilities, and the (address, tree) pairs listed for one
CapturedRules == {capabilities[i].name : i \in 1..Len(capabilities)}
Captured(n) ==
    UNION {{capabilities[i].matches[j] : j \in 1..Len(capabilities[i].matches)} :
            i \in {k \in 1..Len(capabilities) : capabilities[k].name = n}}
HasResultAt(n, a) == \E p \in Captured(n) : p[1] = a
ResultAt(n, a) == (CHOOSE p \in Captured(n) : p[1] = a)[2]

\* the trees of rule n at the given locations, for the locations it has a result at
ResultsAt(n, locations) ==
    LET at == SelectSeq(locations, LAMBDA a : HasResultAt(n, a))
    IN  [k \in 1..Len(at) |-> ResultAt(n, at[k])]

\* the input trees a node refers to, in splicing order
Referenced(r) ==
    IF ~IsSuccMatch(r) THEN <<>>
    ELSE IF KnownRule(RefName(r)) THEN ResultsAt(RefName(r), r.locations)
    ELSE IF KnownNamespace(RefName(r))
    THEN LET ns == SelectSeq(rules.rules_by_namespace[RefName(r)], LAMBDA n : n \in CapturedRules)
         IN  Flatten([i \in 1..Len(ns) |-> ResultsAt(ns[i], r.locations)])
    ELSE <<>>

\* every node of an input tree
RECURSIVE Nodes(_)
Nodes(r) == {r} \cup UNION {Nodes(r.children[i]) : i \in 1..Len(r.children)}
InputNodes == UNION {UNION {Nodes(p[2]) : p \in Captured(n)} : n \in CapturedRules}

\* the (input node, output node) pairs of one conversion: the node itself, its own
\* children, and the referenced trees against the children that follow them
RECURSIVE NodePairs(_, _)
NodePairs(r, d) ==
    LET own == Len(r.children)
        ref == Referenced(r)
    IN  {<<r, d>>}
        \cup UNION {NodePairs(r.children[i], d.children[i]) : i \in 1..Min(own, Len(d.children))}
        \cup UNION {NodePairs(ref[k], d.children[own + k]) : k \in 1..Min(Len(ref), Len(d.children) - own)}

\* every pair of the document of the last call
DocPairs ==
    IF ~HasDoc THEN {}
    ELSE UNION {UNION {NodePairs(p[2], doc.rules[n].matches[p[1]]) :
                        p \in {q \in Captured(n) : q[1] \in DOMAIN doc.rules[n].matches}} :
                n \in DOMAIN doc.rules \cap CapturedRules}

\* the node of an output document: its variant and its type tag
IsFeatureDoc(d) == d.node.type = "feature"
TypeOf(d) == IF IsFeatureDoc(d) THEN d.node.feature.type ELSE d.node.statement.type
Spliced(r, d) == SubSeq(d.children, Len(r.children) + 1, Len(d.children))
Converted(r) == convert_match_to_result_document(rules, capabilities, r)

\* ------------------------------------------------------------------ the document's rules

\* C1: the keys of the document's `rules` are exactly the captured rules that are not
\* marked subscope rules, and each one's `matches` has exactly the addresses listed for it.
C1_TopLevelRules ==
    HasDoc =>
        /\ DOMAIN doc.rules = {n \in CapturedRules : ~MarkedSubscope(n)}
        /\ \A n \in DOMAIN doc.rules : DOMAIN doc.rules[n].matches = {p[1] : p \in Captured(n)}

\* a document built while a captured subscope rule was left out and a rule matched at two addresses
C1_Witness ==
    /\ HasDoc
    /\ \E n \in CapturedRules : MarkedSubscope(n)
    /\ \E n \in DOMAIN doc.rules : Cardinality(DOMAIN doc.rules[n].matches) >= 2

\* ------------------------------------------------------------------ splicing a rule

SubscopeNode(scope) ==
    ("type" :> "statement") @@ ("statement" :> (("type" :> "subscope") @@ ("subscope" :> scope)))

RefersToSubscopeRule(r) == IsSuccMatch(r) /\ KnownRule(RefName(r)) /\ MarkedSubscope(RefName(r))

\* C2: where a successful match feature names a subscope rule, the output node is a
\* subscope statement with the rule's scope, successful, with the rule's converted trees
\* spliced in as children, and no match feature left in the node.
C2_SubscopeRewrite ==
    \A p \in DocPairs :
        RefersToSubscopeRule(p[1]) =>
            /\ p[2].node = SubscopeNode(rules.rules[RefName(p[1])].meta["scope"])
            /\ "feature" \notin DOMAIN p[2].node
            /\ p[2].success = TRUE
            /\ Spliced(p[1], p[2]) =
                    [k \in 1..Len(Referenced(p[1])) |-> Converted(Referenced(p[1])[k])]
            /\ Len(Referenced(p[1])) = Len(p[1].locations)

\* a converted reference to a subscope rule with a spliced child
C2_Witness ==
    \E p \in DocPairs : RefersToSubscopeRule(p[1]) /\ Len(Spliced(p[1], p[2])) >= 1

\* C3: where a successful match feature names a rule, the output children are the
\* converted own children in input order, then one spliced child per location, in the
\* order the location set enumerates.
C3_SplicedAfterOwn ==
    \A p \in DocPairs :
        (IsSuccMatch(p[1]) /\ KnownRule(RefName(p[1]))) =>
            /\ \A k \in 1..Len(p[1].locations) : HasResultAt(RefName(p[1]), p[1].locations[k])
            /\ p[2].children =
                    [i \in 1..Len(p[1].children) |-> Converted(p[1].children[i])]
                    \o [k \in 1..Len(p[1].locations) |->
                            Converted(ResultAt(RefName(p[1]), p[1].locations[k]))]

\* a reference with a child of its own and two locations enumerated in descending order
C3_Witness ==
    \E p \in DocPairs :
        /\ IsSuccMatch(p[1]) /\ KnownRule(RefName(p[1]))
        /\ Len(p[1].children) >= 1
        /\ Len(p[1].locations) >= 2
        /\ p[1].locations[1] > p[1].locations[2]
        /\ Len(p[2].children) = Len(p[1].children) + Len(p[1].locations)

\* ------------------------------------------------------------------ splicing a namespace

SuccMatches == {r \in InputNodes : IsSuccMatch(r)}
RefersToNamespace(r) == IsSuccMatch(r) /\ ~KnownRule(RefName(r)) /\ KnownNamespace(RefName(r))

\* the (rule, address) pairs a namespace reference has a result for
NamespaceHits(r) ==
    {h \in {n \in CapturedRules : \E i \in 1..Len(rules.rules_by_namespace[RefName(r)]) :
                                    rules.rules_by_namespace[RefName(r)][i] = n}
            \X {r.locations[k] : k \in 1..Len(r.locations)} :
        HasResultAt(h[1], h[2])}

\* C4: a successful match feature naming a namespace gets one spliced child per
\* (captured rule of the namespace, location) pair that has a match result.
C4_NamespaceChildren ==
    (Rendered /\ SuccMatches # {} /\ \A r \in SuccMatches : RefersToNamespace(r)) =>
        /\ HasDoc
        /\ \A p \in DocPairs :
                RefersToNamespace(p[1]) =>
                    Len(Spliced(p[1], p[2])) = Cardinality(NamespaceHits(p[1]))

\* ------------------------------------------------------------------ errors

\* a location of the reference for which a referenced, captured rule has no result
HasUncapturedLocation(r) ==
    \/ /\ KnownRule(RefName(r)) /\ RefName(r) \in CapturedRules
       /\ \E k \in 1..Len(r.locations) : ~HasResultAt(RefName(r), r.locations[k])
    \/ /\ RefersToNamespace(r)
       /\ \E i \in 1..Len(rules.rules_by_namespace[RefName(r)]), k \in 1..Len(r.locations) :
            /\ rules.rules_by_namespace[RefName(r)][i] \in CapturedRules
            /\ ~HasResultAt(rules.rules_by_namespace[RefName(r)][i], r.locations[k])

\* C5: a location with no entry in the referenced rule's index is skipped: the conversion
\* raises nothing and the remaining locations are spliced.
C5_UncapturedLocationSkipped ==
    (/\ Rendered
     /\ \A r \in SuccMatches :
            \/ KnownRule(RefName(r)) /\ RefName(r) \in CapturedRules
            \/ RefersToNamespace(r)
     /\ \E r \in SuccMatches : HasUncapturedLocation(r)) =>
        /\ HasDoc
        /\ \A p \in DocPairs : Len(Spliced(p[1], p[2])) = Len(Referenced(p[1]))

\* C6: a successful match feature naming neither a rule nor a namespace raises nothing
\* and is emitted as a match feature node with its own converted children only.
C6_UnknownNamePassesThrough ==
    (/\ Rendered
     /\ SuccMatches # {}
     /\ \A r \in SuccMatches : ~KnownRule(RefName(r)) /\ ~KnownNamespace(RefName(r))) =>
        /\ HasDoc
        /\ \A p \in DocPairs :
                IsSuccMatch(p[1]) =>
                    /\ IsFeatureDoc(p[2]) /\ TypeOf(p[2]) = "match"
                    /\ p[2].children = [i \in 1..Len(p[1].children) |-> Converted(p[1].children[i])]

\* ------------------------------------------------------------------ frame

\* C7: no call changes the RuleSet: every rule's meta is after the call what it was before.
C7_RuleSetReadOnly == [][rules' = rules]_vars

\* ------------------------------------------------------------------ structure

\* the type tag of an input node: the feature's name, the statement's name in lower case
TagOf(node) ==
    IF node.variant = "feature" THEN node.name
    ELSE CASE node.name = "And" -> "and"
           [] node.name = "Or" -> "or"
           [] node.name = "Not" -> "not"
           [] node.name = "Some" -> "some"
           [] node.name = "Range" -> "range"
           [] node.name = "Subscope" -> "subscope"

\* the tag it is emitted with: a `some` with count 0 is emitted as `optional`
EmittedTagOf(node) ==
    IF node.variant = "statement" /\ node.name = "Some" /\ node.count = 0 THEN "optional"
    ELSE TagOf(node)

SameShape(r, d) ==
    /\ d.success = r.success
    /\ IsFeatureDoc(d) <=> r.statement.variant = "feature"
    /\ d.children = [i \in 1..Len(r.children) |-> Converted(r.children[i])]

\* C8 as stated: an input node that is not a successful match feature keeps its success
\* flag, its variant, its type tag and exactly its own children, in order.
C8_StructurePreserved ==
    \A p \in DocPairs :
        ~IsSuccMatch(p[1]) => SameShape(p[1], p[2]) /\ TypeOf(p[2]) = TagOf(p[1].statement)

\* C8 as amended: the same, with `some` of count 0 emitted under the tag `optional`.
C8_StructurePreservedUpToOptional ==
    \A p \in DocPairs :
        ~IsSuccMatch(p[1]) => SameShape(p[1], p[2]) /\ TypeOf(p[2]) = EmittedTagOf(p[1].statement)

\* a converted failed match feature beside a converted `some` of count 0 with a child
C8_Witness ==
    /\ \E p \in DocPairs :
            /\ p[1].statement.variant = "feature" /\ p[1].statement.name = "match"
            /\ ~p[1].success
            /\ p[2].children = <<>>
    /\ \E p \in DocPairs :
            /\ p[1].statement.variant = "statement" /\ p[1].statement.name = "Some"
            /\ p[1].statement.count = 0
            /\ Len(p[2].children) >= 1

\* C9 as stated: an output node carries `locations` exactly when it is a feature node or
\* a range statement node and it succeeded.
C9_LocationsOnFeatureAndRange ==
    \A p \in DocPairs :
        ("locations" \in DOMAIN p[2]) <=>
            /\ p[2].success
            /\ IsFeatureDoc(p[2]) \/ TypeOf(p[2]) = "range"

\* C9 as amended: an output node carries `locations` exactly when the input node it was
\* converted from is a feature or a range statement and succeeded, which includes the
\* subscope statement node written over a successful match feature; the connectives
\* and the failed nodes carry none.
C9_LocationsFromInputNode ==
    \A p \in DocPairs :
        /\ ("locations" \in DOMAIN p[2]) <=>
                /\ p[1].success
                /\ p[1].statement.variant = "feature" \/ TagOf(p[1].statement) = "range"
        /\ "locations" \in DOMAIN p[2] => p[2].locations = p[1].locations
        /\ (~p[2].success \/ (~IsFeatureDoc(p[2]) /\ TypeOf(p[2]) \in {"and", "or", "not", "some", "optional"}))
                => "locations" \notin DOMAIN p[2]

\* a subscope statement node with locations, a successful range node with them, and a
\* successful connective without
C9_Witness ==
    /\ \E p \in DocPairs :
            ~IsFeatureDoc(p[2]) /\ TypeOf(p[2]) = "subscope" /\ "locations" \in DOMAIN p[2]
    /\ \E p \in DocPairs :
            ~IsFeatureDoc(p[2]) /\ TypeOf(p[2]) = "range" /\ "locations" \in DOMAIN p[2]
    /\ \E p \in DocPairs : TypeOf(p[2]) = "and" /\ p[2].success /\ "locations" \notin DOMAIN p[2]

\* ------------------------------------------------------------------ termination

Max(S) == CHOOSE x \in S : \A y \in S : y <= x

\* the rules whose results a node's reference leads to: a captured rule, or the captured
\* rules of a namespace, with a result at one of the node's locations
Targets(r) ==
    {m \in CapturedRules :
        /\ \/ KnownRule(RefName(r)) /\ m = RefName(r)
           \/ /\ RefersToNamespace(r)
              /\ \E i \in 1..Len(rules.rules_by_namespace[RefName(r)]) :
                    rules.rules_by_namespace[RefName(r)][i] = m
        /\ \E k \in 1..Len(r.locations) : HasResultAt(m, r.locations[k])}

\* the reference graph over the captured rules
Succ(n) == UNION {UNION {Targets(r) : r \in {x \in Nodes(p[2]) : IsSuccMatch(x)}} : p \in Captured(n)}

RECURSIVE Reach(_, _)
Reach(frontier, seen) ==
    LET new == UNION {Succ(n) : n \in frontier} \ seen
    IN  IF new = {} THEN seen ELSE Reach(new, seen \cup new)

Acyclic == \A n \in CapturedRules : n \notin Reach({n}, {})

\* the number of rules on the longest chain of references from n, in an acyclic graph
RECURSIVE ChainFrom(_)
ChainFrom(n) == 1 + Max({0} \cup {ChainFrom(m) : m \in Succ(n)})
LongestChain == Max({ChainFrom(n) : n \in CapturedRules})

RECURSIVE Depth(_)
Depth(r) == 1 + Max({0} \cup {Depth(r.children[i]) : i \in 1..Len(r.children)})
MaxTreeDepth == Max(UNION {{Depth(p[2]) : p \in Captured(n)} : n \in CapturedRules})

\* the rules whose match trees are being converted, outermost first
RootRules == LET roots == SelectSeq(stack, LAMBDA f : f.root)
             IN  [i \in 1..Len(roots) |-> roots[i].rule]

Finished == pc \in {"done", "raised"}

\* C10: when the references traversed form no cycle, the conversion ends (it returns, or
\* a lookup raises), no rule's tree is converted inside itself, and the recursion is
\* never deeper than the deepest match tree times the longest chain of references.
C10_TerminatesWhenAcyclic ==
    /\ [](Acyclic =>
            /\ Len(stack) <= MaxTreeDepth * LongestChain
            /\ \A i, j \in 1..Len(RootRules) : i # j => RootRules[i] # RootRules[j]
            /\ pc # "overflow")
    /\ (Acyclic => <>Finished)

\* A's tree refers to B, B's to C, and the recursion is at a leaf of C's tree, as deep as
\* the bound allows
C10_Witness ==
    /\ Acyclic
    /\ RootRules = <<"A", "B", "C">>
    /\ Top.result.children = <<>>
    /\ Len(stack) = MaxTreeDepth * LongestChain

\* the recursion follows a cycle of references up to the recursion limit
C10_CycleOverflows == ~Acyclic /\ pc = "overflow"

====
